---- MODULE Spec2Model ----
(***************************************************************************)
(* A model of the video upload pipeline of tubely:                         *)
(*   handlerUploadVideo        (handler_upload_video.go)                   *)
(*   getVideoAspectRatio and processVideoForFastStart (assets.go)          *)
(* One request runs the handler top to bottom; every statement that can    *)
(* return early is one action.  The file system, the object store and the  *)
(* metadata store are global state; the outcome of every external call     *)
(* (ffmpeg, ffprobe, os.Remove, os.Rename, S3, the database) is chosen by  *)
(* the environment when the call is made.                                  *)
(***************************************************************************)
EXTENDS Integers, Sequences, FiniteSets, TLC

VARIABLES
    pc,      \* pc[r]: the statement request r is at
    req,     \* req[r]: what the handler has read of the request so far
    loc,     \* loc[r]: the handler's local variables and pending defers
    resp,    \* resp[r]: the calls made on the http.ResponseWriter, in order
    hnd,     \* hnd[r]: the state of every file handle the run opened
    disk,    \* disk[p]: the content of the file at path p, or Absent
    s3,      \* the calls made on the object store, in order
    db,      \* the metadata store: video id -> record, or NoRecord
    log      \* the order of the externally visible events of all runs

vars == <<pc, req, loc, resp, hnd, disk, s3, db, log>>

----------------------------------------------------------------------------
(* Strings whose characters matter are sequences of one-character strings. *)

Requests == {"r1"}

Users == {"userA", "userB"}

VideoIDs == {"v1", "v2"}

NoRecord == [exists |-> FALSE]

None == "none"

Absent == "absent"

\* net/http status codes used by the handler
StatusOK == 200

StatusBadRequest == 400

StatusUnauthorized == 401

StatusRequestEntityTooLarge == 413

StatusInternalServerError == 500

----------------------------------------------------------------------------
(* mime.ParseMediaType, as the handler uses it at line 100: the value is   *)
(* cut at the first ";", lower-cased and trimmed; the media type must be   *)
(* token "/" token; what follows must be ";"-separated attribute=value     *)
(* parameters (a trailing ";" is ignored).                                 *)

Uppers == <<"A", "D", "E", "I", "M", "O", "P", "V">>

Lowers == <<"a", "d", "e", "i", "m", "o", "p", "v">>

ToLowerChar(c) ==
    IF \E i \in 1..Len(Uppers) : Uppers[i] = c
    THEN Lowers[CHOOSE i \in 1..Len(Uppers) : Uppers[i] = c]
    ELSE c

ToLower(s) == [i \in 1..Len(s) |-> ToLowerChar(s[i])]

\* strings.Cut(v, ";"): the index of the first ";", or Len(v)+1
CutIndex(s) ==
    IF \E i \in 1..Len(s) : s[i] = ";"
    THEN CHOOSE i \in 1..Len(s) : s[i] = ";" /\ \A j \in 1..(i-1) : s[j] # ";"
    ELSE Len(s) + 1

RECURSIVE TrimLeft(_)
TrimLeft(s) == IF s # <<>> /\ Head(s) = " " THEN TrimLeft(Tail(s)) ELSE s

RECURSIVE TrimRight(_)
TrimRight(s) ==
    IF s # <<>> /\ s[Len(s)] = " " THEN TrimRight(SubSeq(s, 1, Len(s) - 1)) ELSE s

TrimSpace(s) == TrimRight(TrimLeft(s))

IsTokenChar(c) == c \notin {" ", "/", ";", "=", ",", "\""}

\* mime.consumeToken: the length of the longest prefix of token characters
TokenLen(s) ==
    IF \E i \in 1..Len(s) : ~IsTokenChar(s[i])
    THEN (CHOOSE i \in 1..Len(s) :
            ~IsTokenChar(s[i]) /\ \A j \in 1..(i-1) : IsTokenChar(s[j])) - 1
    ELSE Len(s)

Drop(s, n) == SubSeq(s, n + 1, Len(s))

\* mime.checkMediaTypeDisposition: TRUE when the media type is well formed
CheckMediaTypeDisposition(s) ==
    LET n1   == TokenLen(s)
        rest == Drop(s, n1)
    IN  /\ n1 > 0
        /\ \/ rest = <<>>
           \/ /\ Head(rest) = "/"
              /\ LET n2 == TokenLen(Tail(rest))
                 IN  n2 > 0 /\ Drop(Tail(rest), n2) = <<>>

\* the parameter loop of ParseMediaType: TRUE when every parameter parses
RECURSIVE ParamsOK(_)
ParamsOK(v) ==
    LET t == TrimLeft(v)
    IN  IF t = <<>> THEN TRUE
        ELSE IF Head(t) # ";" THEN FALSE
        ELSE LET a  == TrimLeft(Tail(t))
                 nk == TokenLen(a)
                 b  == Drop(a, nk)
             IN  IF nk = 0 THEN TrimSpace(t) = <<";">>
                 ELSE IF b = <<>> \/ Head(b) # "=" THEN FALSE
                 ELSE LET nv == TokenLen(Tail(b))
                      IN  nv > 0 /\ ParamsOK(Drop(Tail(b), nv))

\* mediaType, _, err := mime.ParseMediaType(contentType)
ParseMediaType(v) ==
    LET base      == SubSeq(v, 1, CutIndex(v) - 1)
        mediatype == TrimSpace(ToLower(base))
    IN  IF ~CheckMediaTypeDisposition(mediatype)
        THEN [mediaType |-> <<>>, err |-> TRUE]
        ELSE IF ~ParamsOK(Drop(v, Len(base)))
        THEN [mediaType |-> mediatype, err |-> TRUE]
        ELSE [mediaType |-> mediatype, err |-> FALSE]

VideoMp4 == <<"v", "i", "d", "e", "o", "/", "m", "p", "4">>

\* The Content-Type values a 'video' part is sent with in this model.
ContentTypes ==
    { VideoMp4,
      <<"v", "i", "d", "e", "o", "/", "a", "v", "i">>,
      <<"V", "i", "d", "e", "o", "/", "M", "P", "4">>,
      VideoMp4 \o <<";", " ", "a", "=", "b">>,
      VideoMp4 \o <<";">>,
      VideoMp4 \o <<";", "=", "b">>,
      <<" ">> \o VideoMp4,
      <<"v", "i", "d", "e", "o", " ", "m", "p", "4">>,
      <<"v", "i", "d", "e", "o">>,
      <<>> }

----------------------------------------------------------------------------
(* float64 arithmetic, as getVideoAspectRatio uses it (assets.go 105-114). *)
(* A non-negative value is a vector of FixWidth bits, most significant     *)
(* first, holding the value times 2^FracBits; every float64 the function   *)
(* meets (a quotient of two dimensions, 16/9, 9/16, 0.02) is such a vector *)
(* exactly.                                                                *)

MantissaBits == 53

FracBits == 68

FixWidth == 84

IntBits == FixWidth - FracBits

RECURSIVE Pow2(_)
Pow2(n) == IF n = 0 THEN 1 ELSE 2 * Pow2(n - 1)

\* 2^n mod m, by repeated squaring
RECURSIVE Pow2Mod(_, _)
Pow2Mod(n, m) ==
    IF n = 0 THEN 1 % m
    ELSE LET h == Pow2Mod(n \div 2, m)
         IN  IF n % 2 = 0 THEN (h * h) % m ELSE (2 * ((h * h) % m)) % m

\* what is left of num/den below fractional bit f, times 2^f * den
Remainder(num, den, f) == (num * Pow2Mod(f, den)) % den

\* bit i of the exact quotient num/den (bit i weighs 2^(IntBits - i))
ExactBit(num, den, i) ==
    IF i <= IntBits
    THEN ((num \div den) \div Pow2(IntBits - i)) % 2
    ELSE IF 2 * Remainder(num, den, i - IntBits - 1) >= den THEN 1 ELSE 0

\* the exact quotient cut after bit n, as a vector
ExactBits(num, den, n) ==
    [i \in 1..FixWidth |-> IF i <= n THEN ExactBit(num, den, i) ELSE 0] \o <<>>

\* a + b, bit by bit: the carry into bit i comes from the nearest lower bit
\* where both are 1, through bits where exactly one is 1
CarryInto(a, b, i) ==
    \E j \in (i + 1)..FixWidth :
        /\ a[j] = 1 /\ b[j] = 1
        /\ \A k \in (i + 1)..(j - 1) : a[k] + b[k] = 1

FixAdd(a, b) ==
    [i \in 1..FixWidth |-> (a[i] + b[i] + (IF CarryInto(a, b, i) THEN 1 ELSE 0)) % 2]
        \o <<>>

\* the vector with a single 1, at bit n
Ulp(n) == [i \in 1..FixWidth |-> IF i = n THEN 1 ELSE 0] \o <<>>

\* the position of the leading 1 of num/den
LeadBit(num, den) ==
    CHOOSE i \in 1..FixWidth :
        /\ ExactBit(num, den, i) = 1
        /\ \A j \in 1..(i - 1) : ExactBit(num, den, j) = 0

\* round to nearest, ties to even: trunc holds the bits down to bit last
RoundToEven(num, den, trunc, last) ==
    LET half   == ExactBit(num, den, last + 1)
        sticky == Remainder(num, den, last + 1 - IntBits) # 0
    IN  IF half = 1 /\ (sticky \/ trunc[last] = 1) THEN FixAdd(trunc, Ulp(last)) ELSE trunc

\* float64(num) / float64(den) for positive dimensions: the quotient
\* rounded to MantissaBits significant bits.  (Each intermediate value is
\* bound by a quantifier so that it is computed once.)
Float64Div(num, den) ==
    CHOOSE q \in { RoundToEven(num, den, trunc, last) :
                     last \in {LeadBit(num, den) + MantissaBits - 1},
                     trunc \in {ExactBits(num, den, LeadBit(num, den) + MantissaBits - 1)} } :
        TRUE

FixLess(a, b) ==
    \E i \in 1..FixWidth : a[i] < b[i] /\ \A j \in 1..(i - 1) : a[j] = b[j]

\* math.Abs(x - c) < eps.  Within 2*eps of c the float64 subtraction is exact
\* (x and c lie in one binade), and farther away its rounded result is at
\* least 2*eps, so the comparison is that of the exact difference.
AbsDiffLess(x, c, eps) ==
    \E hi \in {FixAdd(c, eps)}, lo \in {FixAdd(x, eps)} : FixLess(x, hi) /\ FixLess(c, lo)

\* const epsilon = 0.02, converted to float64 by the comparison
Epsilon == Float64Div(1, 50)

\* sixteenNineRatio := 16.0 / 9.0
SixteenNineRatio == Float64Div(16, 9)

\* nineSixteenRatio := 9.0 / 16.0
NineSixteenRatio == Float64Div(9, 16)

\* assets.go 105-117, for videoWidth > 0 and videoHeight > 0
ClassifyRatio(videoWidth, videoHeight) ==
    CHOOSE class \in
        { IF AbsDiffLess(ratio, SixteenNineRatio, Epsilon) THEN "16:9"
          ELSE IF AbsDiffLess(ratio, NineSixteenRatio, Epsilon) THEN "9:16"
          ELSE "other" : ratio \in {Float64Div(videoWidth, videoHeight)} } : TRUE

----------------------------------------------------------------------------
(* getVideoAspectRatio (assets.go 51-118) on what ffprobe printed.         *)

StreamInfo(codecType, width, height) ==
    [CodecType |-> codecType, Width |-> width, Height |-> height]

\* the outcomes of running ffprobe on a file: the command fails, prints
\* something that is not JSON, or prints these streams
ProbeOutput(runErr, jsonErr, streams) ==
    [runErr |-> runErr, jsonErr |-> jsonErr, streams |-> streams]

\* lines 86-93: the first stream whose codec_type is "video", 0 if none
FirstVideo(streams) ==
    IF \E i \in 1..Len(streams) : streams[i].CodecType = "video"
    THEN CHOOSE i \in 1..Len(streams) :
            /\ streams[i].CodecType = "video"
            /\ \A j \in 1..(i - 1) : streams[j].CodecType # "video"
    ELSE 0

\* (string, error) of getVideoAspectRatio
GetVideoAspectRatio(out) ==
    LET i == FirstVideo(out.streams)
    IN  IF out.runErr THEN [ratio |-> "", err |-> "probe"]
        ELSE IF out.jsonErr THEN [ratio |-> "", err |-> "json"]
        ELSE IF i = 0 THEN [ratio |-> "", err |-> "no-video-stream"]
        ELSE IF out.streams[i].Width <= 0 \/ out.streams[i].Height <= 0
        THEN [ratio |-> "", err |-> "invalid-dimensions"]
        ELSE CHOOSE res \in { [ratio |-> ClassifyRatio(w, h), err |-> ""] :
                                 w \in {out.streams[i].Width},
                                 h \in {out.streams[i].Height} } : TRUE

Audio == StreamInfo("audio", 0, 0)

ProbeOutputs ==
    { ProbeOutput(TRUE, FALSE, <<>>),
      ProbeOutput(FALSE, TRUE, <<>>),
      ProbeOutput(FALSE, FALSE, <<>>),
      ProbeOutput(FALSE, FALSE, <<Audio>>),
      ProbeOutput(FALSE, FALSE, <<StreamInfo("video", 0, 1080)>>),
      ProbeOutput(FALSE, FALSE, <<StreamInfo("video", 1920, -1)>>),
      ProbeOutput(FALSE, FALSE, <<Audio, StreamInfo("video", 1920, 1080)>>),
      ProbeOutput(FALSE, FALSE, <<StreamInfo("video", 1080, 1920), Audio>>),
      ProbeOutput(FALSE, FALSE,
                  <<StreamInfo("video", 640, 480), StreamInfo("video", 1920, 1080)>>) }

----------------------------------------------------------------------------
(* hex.EncodeToString and the storage key (handler lines 174-200, 221-225) *)

HexDigits ==
    <<"0", "1", "2", "3", "4", "5", "6", "7", "8", "9", "a", "b", "c", "d", "e", "f">>

\* make([]byte, 16)
TokenBytes == 16

RECURSIVE EncodeToString(_)
EncodeToString(bytes) ==
    IF bytes = <<>> THEN <<>>
    ELSE <<HexDigits[(Head(bytes) \div 16) + 1], HexDigits[(Head(bytes) % 16) + 1]>>
            \o EncodeToString(Tail(bytes))

\* what rand.Read fills the 16 bytes with, in this model
RandomTokens ==
    { [i \in 1..TokenBytes |-> 0],
      [i \in 1..TokenBytes |-> (i * 37 + 171) % 256],
      [i \in 1..TokenBytes |-> 255 - i] }

Landscape == <<"l", "a", "n", "d", "s", "c", "a", "p", "e">>

Portrait == <<"p", "o", "r", "t", "r", "a", "i", "t">>

Other == <<"o", "t", "h", "e", "r">>

DotMp4 == <<".", "m", "p", "4">>

\* S3FileKey with the two orientation prefixes exchanged
S3FileKey_Swapped(ratio, randomBytes) ==
    LET prefix == IF ratio = "16:9" THEN Portrait
                  ELSE IF ratio = "9:16" THEN Landscape
                  ELSE Other
    IN  prefix \o <<"/">> \o EncodeToString(randomBytes) \o DotMp4

\* lines 194-200
S3FileKey(ratio, randomBytes) ==
    LET prefix == IF ratio = "16:9" THEN Landscape
                  ELSE IF ratio = "9:16" THEN Portrait
                  ELSE Other
    IN  prefix \o <<"/">> \o EncodeToString(randomBytes) \o DotMp4

\* cfg.s3CfDistribution
S3CfDistribution == <<"d", "1", ".", "c", "f", ".", "n", "e", "t">>

HTTPS == <<"h", "t", "t", "p", "s", ":", "/", "/">>

\* lines 221-225: fmt.Sprintf("https://%s/%s", cfg.s3CfDistribution, s3FileKey)
S3VideoURL(s3FileKey) == HTTPS \o S3CfDistribution \o <<"/">> \o s3FileKey

----------------------------------------------------------------------------
(* The state the handler works on.                                         *)

\* names os.CreateTemp("", "tubely-upload-*.mp4") can produce
TempNames == {"tubely-upload-1.mp4", "tubely-upload-2.mp4"}

FastStartExt == ".faststart.mp4"

\* a path is <<name, extension>>; processVideoForFastStart appends FastStartExt
Paths == TempNames \X {"", FastStartExt}

NoPath == <<None, "">>

NoFile == [owner |-> None, kind |-> Absent]

\* the record GetVideo returns; VideoURL is a *string, nil until an upload
Video(id, user, title, url) ==
    [exists |-> TRUE, ID |-> id, UserID |-> user, Title |-> title, VideoURL |-> url]

NilURL == <<>>

InitReq ==
    [videoID |-> None, token |-> None, userID |-> None, body |-> None,
     hasVideoPart |-> FALSE, contentType |-> <<>>, probe |-> None]

InitLoc ==
    [video |-> NoRecord, contentType |-> <<>>, tmpName |-> NoPath,
     tmpFile |-> None, optimizedPath |-> NoPath, randomBytes |-> <<>>,
     ratio |-> "", inspectErr |-> FALSE, s3FileKey |-> <<>>,
     deferFileClose |-> FALSE, deferTmpClose |-> None, deferRemove |-> NoPath,
     failedAt |-> None]

HandleNames == {"file", "tmp0", "tmp1"}

InitFor(R) ==
    /\ pc = [r \in R |-> "start"]
    /\ req = [r \in R |-> InitReq]
    /\ loc = [r \in R |-> InitLoc]
    /\ resp = [r \in R |-> <<>>]
    /\ hnd = [r \in R |-> [h \in HandleNames |-> "unopened"]]
    /\ disk = [p \in Paths |-> NoFile]
    /\ s3 = <<>>
    /\ db = [v \in VideoIDs |->
                IF v = "v1" THEN Video("v1", "userA", "title-1", NilURL) ELSE NoRecord]
    /\ log = <<>>

Init == InitFor(Requests)

Ev(r, op, arg) == [r |-> r, op |-> op, arg |-> arg]

\* The msg argument of the respondWithError call of each error return.
Message(stage, code) ==
    CASE stage = "videoID"       -> "Invalid video ID"
      [] stage = "jwt-missing"   -> "Couldn't find JWT"
      [] stage = "jwt"           -> "Couldn't validate JWT"
      [] stage = "parse" /\ code = StatusRequestEntityTooLarge
                                 -> "Request body too large, limit is 1GB"
      [] stage = "parse"         -> "Unable to parse multipart form"
      [] stage = "getvideo"      -> "Couldn't find video"
      [] stage = "owner"         -> "Not authorized to update this video"
      [] stage = "formfile"      -> "Unable to parse form file 'video'"
      [] stage = "ctype-missing" -> "Missing Content-Type for video"
      [] stage = "ctype-format"  -> "Invalid Content-Type format"
      [] stage = "ctype-value"   -> "Invalid Content-Type for video, only 'video/mp4' is allowed"
      [] stage = "createtemp"    -> "Unable to create temporary file on server"
      [] stage = "copy"          -> "Error saving uploaded file to temp file"
      [] stage \in {"ffmpeg", "swap-remove", "swap-rename"}
                                 -> "Error optimizing video for streaming"
      [] stage = "reopen"        -> "Error opening optimized video file"
      [] stage = "seek"          -> "Unable to seek in temp file"
      [] stage = "rand"          -> "Failed to generate secure file key"
      [] stage = "probe"         -> "Error getting video aspect ratio"
      [] stage = "put"           -> "Error uploading video to S3"
      [] stage = "update"        -> "Couldn't update video record in DB"
      [] OTHER                   -> None

\* The err argument of the same calls: nil where the handler passes nil, the
\* fmt.Errorf text of processVideoForFastStart (assets.go 139, 150, 155) for
\* the call of line 140, and the failing call's own error everywhere else.
ErrorValue(stage) ==
    CASE stage \in {"owner", "ctype-missing", "ctype-value", "json"} -> None
      [] stage = "ffmpeg"      -> "ffmpeg execution failed"
      [] stage = "swap-remove" -> "failed to remove original file"
      [] stage = "swap-rename" -> "failed to rename processed file"
      [] OTHER                 -> stage

\* respondWithError(w, code, msg, err) and respondWithJSON(w, code, payload):
\* one more call on the ResponseWriter
Respond(r, fn, code, stage) ==
    [resp EXCEPT ![r] = Append(@, [fn |-> fn, code |-> code,
                                   msg |-> Message(stage, code),
                                   err |-> ErrorValue(stage)])]

\* what the client sees: net/http keeps the first WriteHeader
HTTPStatus(r) == IF resp[r] = <<>> THEN 0 ELSE resp[r][1].code

\* respondWithError followed by return: the deferred calls run next
Fail(r, code, stage) ==
    /\ resp' = Respond(r, "error", code, stage)
    /\ pc' = [pc EXCEPT ![r] = "ret"]
    /\ loc' = [loc EXCEPT ![r].failedAt = stage]
    /\ log' = Append(log, Ev(r, "respond", code))

----------------------------------------------------------------------------
(* handlerUploadVideo, lines 22-115: everything before the temp file.      *)

\* lines 22-27: uuid.Parse(r.PathValue("videoID"))
ParseVideoID(r) ==
    /\ pc[r] = "start"
    /\ \E id \in VideoIDs \cup {"not-a-uuid"} :
        /\ req' = [req EXCEPT ![r].videoID = id]
        /\ IF id \notin VideoIDs
           THEN Fail(r, StatusBadRequest, "videoID")
           ELSE /\ pc' = [pc EXCEPT ![r] = "token"]
                /\ UNCHANGED <<resp, loc, log>>
    /\ UNCHANGED <<hnd, disk, s3, db>>

\* lines 29-39: auth.GetBearerToken and auth.ValidateJWT
ValidateJWT(r) ==
    /\ pc[r] = "token"
    /\ \E tok \in {"missing", "invalid"} \cup Users :
        /\ req' = [req EXCEPT ![r].token = tok,
                              ![r].userID = IF tok \in Users THEN tok ELSE None]
        /\ IF tok \notin Users
           THEN Fail(r, StatusUnauthorized,
                     IF tok = "missing" THEN "jwt-missing" ELSE "jwt")
           ELSE /\ pc' = [pc EXCEPT ![r] = "parse"]
                /\ UNCHANGED <<resp, loc, log>>
    /\ UNCHANGED <<hnd, disk, s3, db>>

ErrBodyTooLarge == "http: request body too large"

\* The request bodies of the model, by what r.ParseMultipartForm does with a
\* body read through http.MaxBytesReader(w, r.Body, 1 << 30):
\*   ok            a well-formed multipart form within the limit
\*   malformed     not a multipart form
\*   large-part    the limit is reached inside the content of a part
\*   large-delim   the limit is reached while NextPart scans for a boundary line
Bodies == {"ok", "malformed", "large-part", "large-delim"}

Oversized(body) == body \in {"large-part", "large-delim"}

\* err.Error() of the error r.ParseMultipartForm returns ("" for nil): a read
\* error inside a part is returned as it is, one met by NextPart is wrapped
ParseMultipartForm(body) ==
    CASE body = "ok"          -> ""
      [] body = "malformed"   -> "request Content-Type isn't multipart/form-data"
      [] body = "large-part"  -> ErrBodyTooLarge
      [] body = "large-delim" -> "multipart: NextPart: http: request body too large"

\* lines 46-65
ParseForm(r) ==
    /\ pc[r] = "parse"
    /\ \E body \in Bodies :
        LET err == ParseMultipartForm(body)
        IN  /\ req' = [req EXCEPT ![r].body = body]
            /\ IF err # ""
               THEN IF err = ErrBodyTooLarge
                    THEN Fail(r, StatusRequestEntityTooLarge, "parse")
                    ELSE Fail(r, StatusBadRequest, "parse")
               ELSE /\ pc' = [pc EXCEPT ![r] = "getvideo"]
                    /\ UNCHANGED <<resp, loc, log>>
    /\ UNCHANGED <<hnd, disk, s3, db>>

\* lines 67-85: cfg.db.GetVideo(videoID) and the ownership check
GetVideo(r) ==
    /\ pc[r] = "getvideo"
    /\ LET video == db[req[r].videoID]
       IN  IF ~video.exists
           THEN Fail(r, StatusInternalServerError, "getvideo")
           ELSE IF video.UserID # req[r].userID
           THEN Fail(r, StatusUnauthorized, "owner")
           ELSE /\ loc' = [loc EXCEPT ![r].video = video]
                /\ pc' = [pc EXCEPT ![r] = "formfile"]
                /\ UNCHANGED <<resp, log>>
    /\ UNCHANGED <<req, hnd, disk, s3, db>>

\* lines 87-92: r.FormFile("video"); defer file.Close()
FormFile(r) ==
    /\ pc[r] = "formfile"
    /\ \E has \in BOOLEAN :
        /\ req' = [req EXCEPT ![r].hasVideoPart = has]
        /\ IF ~has
           THEN /\ Fail(r, StatusBadRequest, "formfile")
                /\ UNCHANGED hnd
           ELSE /\ hnd' = [hnd EXCEPT ![r]["file"] = "open"]
                /\ loc' = [loc EXCEPT ![r].deferFileClose = TRUE]
                /\ pc' = [pc EXCEPT ![r] = "ctype"]
                /\ UNCHANGED <<resp, log>>
    /\ UNCHANGED <<disk, s3, db>>

\* CheckContentType without the comparison of line 107
CheckContentType_NoTypeCheck(r) ==
    /\ pc[r] = "ctype"
    /\ \E contentType \in ContentTypes :
        LET parsed == ParseMediaType(contentType)
        IN  /\ req' = [req EXCEPT ![r].contentType = contentType]
            /\ IF contentType = <<>>
               THEN Fail(r, StatusBadRequest, "ctype-missing")
               ELSE IF parsed.err
               THEN Fail(r, StatusBadRequest, "ctype-format")
               ELSE /\ loc' = [loc EXCEPT ![r].contentType = contentType]
                    /\ pc' = [pc EXCEPT ![r] = "createtemp"]
                    /\ UNCHANGED <<resp, log>>
    /\ UNCHANGED <<hnd, disk, s3, db>>

\* lines 94-115: the declared Content-Type of the part
CheckContentType(r) ==
    /\ pc[r] = "ctype"
    /\ \E contentType \in ContentTypes :
        LET parsed == ParseMediaType(contentType)
        IN  /\ req' = [req EXCEPT ![r].contentType = contentType]
            /\ IF contentType = <<>>
               THEN Fail(r, StatusBadRequest, "ctype-missing")
               ELSE IF parsed.err
               THEN Fail(r, StatusBadRequest, "ctype-format")
               ELSE IF parsed.mediaType # VideoMp4
               THEN Fail(r, StatusBadRequest, "ctype-value")
               ELSE /\ loc' = [loc EXCEPT ![r].contentType = contentType]
                    /\ pc' = [pc EXCEPT ![r] = "createtemp"]
                    /\ UNCHANGED <<resp, log>>
    /\ UNCHANGED <<hnd, disk, s3, db>>

----------------------------------------------------------------------------
(* The file system calls.                                                  *)

Exists(p) == disk[p].kind # Absent

\* os.Remove(p): fails when there is no such file or when the system refuses
\* (ok = FALSE); the file is gone only when it succeeds
RemoveOK(p, ok) == ok /\ Exists(p)

DiskAfterRemove(d, p, ok) ==
    IF ok /\ d[p].kind # Absent THEN [d EXCEPT ![p] = NoFile] ELSE d

\* the record of an os.Remove(p) call made on disk d
RemoveEv(r, d, p, ok) ==
    [r |-> r, op |-> "remove",
     arg |-> [path |-> p, existed |-> d[p].kind # Absent, ok |-> ok /\ d[p].kind # Absent]]

FastStartPath(p) == <<p[1], FastStartExt>>

\* the temp files of run r that are on disk
TempFilesOf(r) == {p \in Paths : disk[p].owner = r}

----------------------------------------------------------------------------
(* handlerUploadVideo, lines 117-235, and processVideoForFastStart.        *)

\* lines 119-131: os.CreateTemp and the two defers
CreateTemp(r) ==
    /\ pc[r] = "createtemp"
    /\ \/ /\ Fail(r, StatusInternalServerError, "createtemp")
          /\ UNCHANGED <<hnd, disk>>
       \/ \E name \in TempNames :
            LET p == <<name, "">>
            IN  /\ ~Exists(p)
                /\ disk' = [disk EXCEPT ![p] = [owner |-> r, kind |-> "empty"]]
                /\ hnd' = [hnd EXCEPT ![r]["tmp0"] = "open"]
                /\ loc' = [loc EXCEPT ![r].tmpName = p,
                                      ![r].tmpFile = "tmp0",
                                      ![r].deferTmpClose = "tmp0",
                                      ![r].deferRemove = p]
                /\ pc' = [pc EXCEPT ![r] = "copy"]
                /\ log' = Append(log, Ev(r, "create", p))
                /\ UNCHANGED resp
    /\ UNCHANGED <<req, s3, db>>

\* lines 133-136: io.Copy(tmpFile, file)
CopyBody(r) ==
    /\ pc[r] = "copy"
    /\ \/ /\ disk' = [disk EXCEPT ![loc[r].tmpName].kind = "partial"]
          /\ Fail(r, StatusInternalServerError, "copy")
       \/ /\ disk' = [disk EXCEPT ![loc[r].tmpName].kind = "upload"]
          /\ pc' = [pc EXCEPT ![r] = "ffmpeg"]
          /\ UNCHANGED <<resp, loc, log>>
    /\ UNCHANGED <<req, hnd, s3, db>>

\* assets.go 120-145 without the os.Remove(outputPath) of line 138
RunFFmpeg_NoCleanup(r) ==
    /\ pc[r] = "ffmpeg"
    /\ LET filePath   == loc[r].tmpName
           outputPath == FastStartPath(filePath)
       IN  \/ /\ disk' = [disk EXCEPT ![outputPath] = [owner |-> r, kind |-> "faststart"]]
              /\ log' = Append(log, Ev(r, "create", outputPath))
              /\ pc' = [pc EXCEPT ![r] = "swap-remove"]
              /\ UNCHANGED <<resp, loc>>
           \/ \E partial \in BOOLEAN, ok \in BOOLEAN :
                LET written == IF partial
                               THEN [disk EXCEPT ![outputPath] =
                                        [owner |-> r, kind |-> "partial"]]
                               ELSE disk
                IN  /\ disk' = written
                    /\ resp' = Respond(r, "error", StatusInternalServerError, "ffmpeg")
                    /\ pc' = [pc EXCEPT ![r] = "ret"]
                    /\ loc' = [loc EXCEPT ![r].failedAt = "ffmpeg"]
                    /\ log' = log
                         \o (IF partial THEN <<Ev(r, "create", outputPath)>> ELSE <<>>)
                         \o << Ev(r, "respond", StatusInternalServerError) >>
    /\ UNCHANGED <<req, hnd, s3, db>>

\* assets.go 122-145: run ffmpeg; on failure remove the output and return
\* the error, which the handler answers at lines 139-147
RunFFmpeg(r) ==
    /\ pc[r] = "ffmpeg"
    /\ LET filePath   == loc[r].tmpName
           outputPath == FastStartPath(filePath)
       IN  \/ /\ disk' = [disk EXCEPT ![outputPath] = [owner |-> r, kind |-> "faststart"]]
              /\ log' = Append(log, Ev(r, "create", outputPath))
              /\ pc' = [pc EXCEPT ![r] = "swap-remove"]
              /\ UNCHANGED <<resp, loc>>
           \/ \E partial \in BOOLEAN, ok \in BOOLEAN :
                LET written == IF partial
                               THEN [disk EXCEPT ![outputPath] =
                                        [owner |-> r, kind |-> "partial"]]
                               ELSE disk
                IN  /\ disk' = DiskAfterRemove(written, outputPath, ok)
                    /\ resp' = Respond(r, "error", StatusInternalServerError, "ffmpeg")
                    /\ pc' = [pc EXCEPT ![r] = "ret"]
                    /\ loc' = [loc EXCEPT ![r].failedAt = "ffmpeg"]
                    /\ log' = log
                         \o (IF partial THEN <<Ev(r, "create", outputPath)>> ELSE <<>>)
                         \o << RemoveEv(r, written, outputPath, ok),
                               Ev(r, "respond", StatusInternalServerError) >>
    /\ UNCHANGED <<req, hnd, s3, db>>

\* assets.go 148-151 returning the error of line 139 for a failed os.Remove
SwapRemove_SameError(r) ==
    /\ pc[r] = "swap-remove"
    /\ \E ok \in BOOLEAN :
        LET filePath == loc[r].tmpName
        IN  /\ disk' = DiskAfterRemove(disk, filePath, ok)
            /\ IF RemoveOK(filePath, ok)
               THEN /\ pc' = [pc EXCEPT ![r] = "swap-rename"]
                    /\ log' = Append(log, RemoveEv(r, disk, filePath, ok))
                    /\ UNCHANGED <<resp, loc>>
               ELSE /\ resp' = Respond(r, "error", StatusInternalServerError, "ffmpeg")
                    /\ pc' = [pc EXCEPT ![r] = "ret"]
                    /\ loc' = [loc EXCEPT ![r].failedAt = "swap-remove"]
                    /\ log' = log \o << RemoveEv(r, disk, filePath, ok),
                                        Ev(r, "respond", StatusInternalServerError) >>
    /\ UNCHANGED <<req, hnd, s3, db>>

\* assets.go 148-151: os.Remove(filePath)
SwapRemove(r) ==
    /\ pc[r] = "swap-remove"
    /\ \E ok \in BOOLEAN :
        LET filePath == loc[r].tmpName
        IN  /\ disk' = DiskAfterRemove(disk, filePath, ok)
            /\ IF RemoveOK(filePath, ok)
               THEN /\ pc' = [pc EXCEPT ![r] = "swap-rename"]
                    /\ log' = Append(log, RemoveEv(r, disk, filePath, ok))
                    /\ UNCHANGED <<resp, loc>>
               ELSE /\ resp' = Respond(r, "error", StatusInternalServerError, "swap-remove")
                    /\ pc' = [pc EXCEPT ![r] = "ret"]
                    /\ loc' = [loc EXCEPT ![r].failedAt = "swap-remove"]
                    /\ log' = log \o << RemoveEv(r, disk, filePath, ok),
                                        Ev(r, "respond", StatusInternalServerError) >>
    /\ UNCHANGED <<req, hnd, s3, db>>

\* assets.go 153-158: os.Rename(outputPath, filePath); return filePath
SwapRename(r) ==
    /\ pc[r] = "swap-rename"
    /\ LET filePath   == loc[r].tmpName
           outputPath == FastStartPath(filePath)
       IN  \/ /\ Exists(outputPath)
              /\ disk' = [disk EXCEPT ![filePath] = disk[outputPath],
                                      ![outputPath] = NoFile]
              /\ loc' = [loc EXCEPT ![r].optimizedPath = filePath]
              /\ pc' = [pc EXCEPT ![r] = "reopen"]
              /\ log' = Append(log, Ev(r, "rename", outputPath))
              /\ UNCHANGED resp
           \/ /\ Fail(r, StatusInternalServerError, "swap-rename")
              /\ UNCHANGED disk
    /\ UNCHANGED <<req, hnd, s3, db>>

\* lines 150-160: tmpFile.Close(); tmpFile, err = os.Open(optimizedPath)
Reopen(r) ==
    /\ pc[r] = "reopen"
    /\ \/ /\ Exists(loc[r].optimizedPath)
          /\ hnd' = [hnd EXCEPT ![r]["tmp0"] = "closed", ![r]["tmp1"] = "open"]
          /\ loc' = [loc EXCEPT ![r].tmpFile = "tmp1"]
          /\ pc' = [pc EXCEPT ![r] = "seek"]
          /\ log' = log \o <<Ev(r, "close", "tmp0"), Ev(r, "open", "tmp1")>>
          /\ UNCHANGED resp
       \/ /\ hnd' = [hnd EXCEPT ![r]["tmp0"] = "closed"]
          /\ resp' = Respond(r, "error", StatusInternalServerError, "reopen")
          /\ pc' = [pc EXCEPT ![r] = "ret"]
          /\ loc' = [loc EXCEPT ![r].tmpFile = None, ![r].failedAt = "reopen"]
          /\ log' = log \o << Ev(r, "close", "tmp0"),
                              Ev(r, "respond", StatusInternalServerError) >>
    /\ UNCHANGED <<req, disk, s3, db>>

\* lines 163-171: tmpFile.Seek(0, io.SeekStart)
Seek(r) ==
    /\ pc[r] = "seek"
    /\ \/ /\ pc' = [pc EXCEPT ![r] = "rand"]
          /\ UNCHANGED <<resp, loc, log>>
       \/ Fail(r, StatusInternalServerError, "seek")
    /\ UNCHANGED <<req, hnd, disk, s3, db>>

\* lines 174-183: rand.Read(randomBytes)
RandRead(r) ==
    /\ pc[r] = "rand"
    /\ \/ \E bytes \in RandomTokens :
            /\ loc' = [loc EXCEPT ![r].randomBytes = bytes]
            /\ pc' = [pc EXCEPT ![r] = "probe"]
            /\ UNCHANGED <<resp, log>>
       \/ Fail(r, StatusInternalServerError, "rand")
    /\ UNCHANGED <<req, hnd, disk, s3, db>>

\* lines 185-200: getVideoAspectRatio(tmpFile.Name()); an error is answered
\* with respondWithError and the handler goes on to build the key
InspectAspect(r) ==
    /\ pc[r] = "probe"
    /\ \E out \in ProbeOutputs :
        LET got == GetVideoAspectRatio(out)
        IN  /\ req' = [req EXCEPT ![r].probe = out]
            /\ loc' = [loc EXCEPT ![r].ratio = got.ratio,
                                  ![r].inspectErr = got.err # "",
                                  ![r].s3FileKey = S3FileKey(got.ratio, loc[r].randomBytes)]
            /\ IF got.err # ""
               THEN /\ resp' = Respond(r, "error", StatusInternalServerError, "probe")
                    /\ log' = Append(log, Ev(r, "respond", StatusInternalServerError))
               ELSE UNCHANGED <<resp, log>>
            /\ pc' = [pc EXCEPT ![r] = "put"]
    /\ UNCHANGED <<hnd, disk, s3, db>>

\* PutObject that calls the object store a second time when the first call
\* fails, instead of returning
PutObject_Retry(r) ==
    /\ pc[r] = "put"
    /\ \E ok \in BOOLEAN :
        LET call(res) == [r |-> r, op |-> "PutObject", Key |-> loc[r].s3FileKey,
                          ContentType |-> loc[r].contentType,
                          Body |-> loc[r].tmpFile, ok |-> res]
        IN  /\ s3' = IF ok THEN Append(s3, call(TRUE))
                     ELSE s3 \o <<call(FALSE), call(TRUE)>>
            /\ log' = IF ok THEN Append(log, Ev(r, "put", TRUE))
                      ELSE log \o <<Ev(r, "put", FALSE), Ev(r, "put", TRUE)>>
            /\ pc' = [pc EXCEPT ![r] = "update"]
            /\ UNCHANGED <<resp, loc>>
    /\ UNCHANGED <<req, hnd, disk, db>>

\* lines 203-217: cfg.s3Client.PutObject
PutObject(r) ==
    /\ pc[r] = "put"
    /\ \E ok \in BOOLEAN :
        /\ s3' = Append(s3, [r |-> r, op |-> "PutObject", Key |-> loc[r].s3FileKey,
                             ContentType |-> loc[r].contentType,
                             Body |-> loc[r].tmpFile, ok |-> ok])
        /\ IF ok
           THEN /\ pc' = [pc EXCEPT ![r] = "update"]
                /\ log' = Append(log, Ev(r, "put", ok))
                /\ UNCHANGED <<resp, loc>>
           ELSE /\ resp' = Respond(r, "error", StatusInternalServerError, "put")
                /\ pc' = [pc EXCEPT ![r] = "ret"]
                /\ loc' = [loc EXCEPT ![r].failedAt = "put"]
                /\ log' = log \o << Ev(r, "put", ok),
                                    Ev(r, "respond", StatusInternalServerError) >>
    /\ UNCHANGED <<req, hnd, disk, db>>

\* cfg.db.UpdateVideo(video), the store's updateVideo(record): the record it
\* is given replaces the stored one
StoreUpdateVideo(d, video) == [d EXCEPT ![video.ID] = video]

\* lines 221-232 with a second cfg.db.UpdateVideo(video) after a failed one
UpdateVideo_Retry(r) ==
    /\ pc[r] = "update"
    /\ \E ok \in BOOLEAN :
        LET video == [loc[r].video EXCEPT !.VideoURL = S3VideoURL(loc[r].s3FileKey)]
        IN  /\ db' = IF ok THEN StoreUpdateVideo(db, video) ELSE db
            /\ IF ok
               THEN /\ loc' = [loc EXCEPT ![r].video = video]
                    /\ pc' = [pc EXCEPT ![r] = "json"]
                    /\ log' = Append(log, Ev(r, "update", ok))
                    /\ UNCHANGED resp
               ELSE /\ resp' = Respond(r, "error", StatusInternalServerError, "update")
                    /\ pc' = [pc EXCEPT ![r] = "ret"]
                    /\ loc' = [loc EXCEPT ![r].video = video, ![r].failedAt = "update"]
                    /\ log' = log \o << Ev(r, "update", ok), Ev(r, "update", ok),
                                        Ev(r, "respond", StatusInternalServerError) >>
    /\ UNCHANGED <<req, hnd, disk, s3>>

\* lines 221-232: video.VideoURL = &s3VideoURL; cfg.db.UpdateVideo(video)
UpdateVideo(r) ==
    /\ pc[r] = "update"
    /\ \E ok \in BOOLEAN :
        LET video == [loc[r].video EXCEPT !.VideoURL = S3VideoURL(loc[r].s3FileKey)]
        IN  /\ db' = IF ok THEN StoreUpdateVideo(db, video) ELSE db
            /\ IF ok
               THEN /\ loc' = [loc EXCEPT ![r].video = video]
                    /\ pc' = [pc EXCEPT ![r] = "json"]
                    /\ log' = Append(log, Ev(r, "update", ok))
                    /\ UNCHANGED resp
               ELSE /\ resp' = Respond(r, "error", StatusInternalServerError, "update")
                    /\ pc' = [pc EXCEPT ![r] = "ret"]
                    /\ loc' = [loc EXCEPT ![r].video = video, ![r].failedAt = "update"]
                    /\ log' = log \o << Ev(r, "update", ok),
                                        Ev(r, "respond", StatusInternalServerError) >>
    /\ UNCHANGED <<req, hnd, disk, s3>>

\* line 234: respondWithJSON(w, http.StatusOK, video)
RespondJSON(r) ==
    /\ pc[r] = "json"
    /\ resp' = Respond(r, "json", StatusOK, "json")
    /\ log' = Append(log, Ev(r, "respond", StatusOK))
    /\ pc' = [pc EXCEPT ![r] = "ret"]
    /\ UNCHANGED <<req, loc, hnd, disk, s3, db>>

\* the handler returns: the deferred calls run last-in first-out, that is
\* os.Remove(tmpFile.Name()), tmpFile.Close(), file.Close(), each with the
\* argument it had when the defer statement ran (lines 92, 130, 131)
Return(r) ==
    /\ pc[r] = "ret"
    /\ \E ok \in BOOLEAN :
        LET p       == loc[r].deferRemove
            remove  == p # NoPath
            closes  == {h \in HandleNames :
                          \/ h = loc[r].deferTmpClose
                          \/ (h = "file" /\ loc[r].deferFileClose)}
        IN  /\ remove \/ ok
            /\ disk' = IF remove THEN DiskAfterRemove(disk, p, ok) ELSE disk
            /\ hnd' = [hnd EXCEPT ![r] =
                          [h \in HandleNames |-> IF h \in closes THEN "closed" ELSE @[h]]]
            /\ log' = log
                 \o (IF remove THEN <<RemoveEv(r, disk, p, ok)>> ELSE <<>>)
                 \o (IF loc[r].deferTmpClose # None
                     THEN <<Ev(r, "close", loc[r].deferTmpClose)>> ELSE <<>>)
                 \o (IF loc[r].deferFileClose THEN <<Ev(r, "close", "file")>> ELSE <<>>)
                 \o <<Ev(r, "return", None)>>
    /\ pc' = [pc EXCEPT ![r] = "done"]
    /\ UNCHANGED <<req, loc, resp, s3, db>>

Step(r) ==
    \/ ParseVideoID(r)
    \/ ValidateJWT(r)
    \/ ParseForm(r)
    \/ GetVideo(r)
    \/ FormFile(r)
    \/ CheckContentType(r)
    \/ CreateTemp(r)
    \/ CopyBody(r)
    \/ RunFFmpeg(r)
    \/ SwapRemove(r)
    \/ SwapRename(r)
    \/ Reopen(r)
    \/ Seek(r)
    \/ RandRead(r)
    \/ InspectAspect(r)
    \/ PutObject(r)
    \/ UpdateVideo(r)
    \/ RespondJSON(r)
    \/ Return(r)

Next == \E r \in Requests : Step(r)

Spec == Init /\ [][Next]_vars

----------------------------------------------------------------------------
(* getVideoAspectRatio on its own: every geometry a video stream can       *)
(* report within the bounds, classified once.                              *)

MaxDim == 24

\* dimensions in use, and the ones whose ratio lies 0.02 from 16/9 or 9/16
StandardDims == {217, 233, 400, 450, 480, 640, 791, 809, 1080, 1920}

Dims == (0..MaxDim) \cup StandardDims

InitAspect ==
    /\ \E w \in Dims, h \in Dims :
         req = [r \in Requests |->
                  [InitReq EXCEPT !.probe =
                      ProbeOutput(FALSE, FALSE, <<StreamInfo("video", w, h)>>)]]
    /\ pc = [r \in Requests |-> "inspect"]
    /\ loc = [r \in Requests |-> InitLoc]
    /\ resp = [r \in Requests |-> <<>>]
    /\ hnd = [r \in Requests |-> [h \in HandleNames |-> "unopened"]]
    /\ disk = [p \in Paths |-> NoFile]
    /\ s3 = <<>>
    /\ db = [v \in VideoIDs |-> NoRecord]
    /\ log = <<>>

\* ratio, err := cfg.getVideoAspectRatio(path)
Inspect(r) ==
    /\ pc[r] = "inspect"
    /\ LET got == GetVideoAspectRatio(req[r].probe)
       IN  loc' = [loc EXCEPT ![r].ratio = got.ratio, ![r].inspectErr = got.err # ""]
    /\ pc' = [pc EXCEPT ![r] = "inspected"]
    /\ UNCHANGED <<req, resp, hnd, disk, s3, db, log>>

NextAspect == \E r \in Requests : Inspect(r)

SpecAspect == InitAspect /\ [][NextAspect]_vars

----------------------------------------------------------------------------
(* What the claims speak of.                                               *)

Done(r) == pc[r] = "done"

\* the run created its temp file (line 119 succeeded)
Staged(r) == loc[r].tmpName # NoPath

\* the run left through one of the error returns
Failed(r) == loc[r].failedAt # None

\* the client was answered 200 with the updated record
Succeeded(r) == Done(r) /\ HTTPStatus(r) = StatusOK

Events(r, op) == {i \in 1..Len(log) : log[i].r = r /\ log[i].op = op}

PutCalls(r) == {i \in 1..Len(s3) : s3[i].r = r}

NoStagePutUpdate(r) ==
    /\ ~Staged(r)
    /\ Events(r, "create") = {}
    /\ PutCalls(r) = {}
    /\ Events(r, "update") = {}

Abs(x) == IF x < 0 THEN 0 - x ELSE x

\* the classification over the rationals: |w/h - 16/9| < 1/50 is
\* 50 * |9w - 16h| < 9h, and |w/h - 9/16| < 1/50 is 50 * |16w - 9h| < 16h
RealClass(w, h) ==
    IF 50 * Abs(9 * w - 16 * h) < 9 * h THEN "16:9"
    ELSE IF 50 * Abs(16 * w - 9 * h) < 16 * h THEN "9:16"
    ELSE "other"

----------------------------------------------------------------------------
(* The claims.                                                             *)

\* the system refused an os.Remove of a file that was there
RemoveRefused(r) ==
    \E i \in Events(r, "remove") : log[i].arg.existed /\ ~log[i].arg.ok

\* C1: a run that fails after its temp file was created leaves no temp file
\* of its own on disk (neither the upload copy nor the .faststart.mp4 output)
\* once the handler has returned.  Stated for the runs in which the system
\* refused none of the removals the run asked for: what is left then was
\* never asked to be removed.
C1_NoTempFileAfterFailure ==
    \A r \in Requests :
        (Done(r) /\ Staged(r) /\ Failed(r) /\ ~RemoveRefused(r)) => TempFilesOf(r) = {}

\* C2: an error of getVideoAspectRatio aborts the run: the run fails and calls
\* neither PutObject nor UpdateVideo.
C2_InspectorErrorAborts ==
    \A r \in Requests :
        loc[r].inspectErr =>
            /\ PutCalls(r) = {}
            /\ Events(r, "update") = {}
            /\ Done(r) => Failed(r)

\* C3: a run answered 200 made exactly one PutObject call and exactly one
\* UpdateVideo call, both successful, and the put completed before the update.
C3_OnePutThenOneUpdate ==
    \A r \in Requests :
        Succeeded(r) =>
            /\ Cardinality(PutCalls(r)) = 1
            /\ \A i \in PutCalls(r) : s3[i].ok
            /\ Cardinality(Events(r, "put")) = 1
            /\ Cardinality(Events(r, "update")) = 1
            /\ \A i \in Events(r, "put"), j \in Events(r, "update") : i < j

C3_Witness ==
    \E r \in Requests :
        Succeeded(r) /\ PutCalls(r) # {} /\ db[req[r].videoID].VideoURL # NilURL

\* C4: a request authenticated as a user who does not own the target record
\* is answered 401 whatever its body is, with no temp file, put or update.
C4_NonOwnerIs401 ==
    \A r \in Requests :
        ( /\ Done(r)
          /\ req[r].userID \in Users
          /\ req[r].videoID \in VideoIDs
          /\ db[req[r].videoID].exists
          /\ db[req[r].videoID].UserID # req[r].userID )
        => (HTTPStatus(r) = StatusUnauthorized /\ NoStagePutUpdate(r))

\* C5: when GetVideo fails because the record does not exist the request is
\* answered 404, with no temp file, put or update.
C5_MissingRecordIs404 ==
    \A r \in Requests :
        (Done(r) /\ loc[r].failedAt = "getvideo")
        => (HTTPStatus(r) = 404 /\ NoStagePutUpdate(r))

\* the run has checked the Content-Type of its 'video' part
ContentTypeChecked(r) ==
    req[r].hasVideoPart /\ pc[r] \notin {"start", "token", "parse", "getvideo",
                                         "formfile", "ctype"}

Rejected400(r) == HTTPStatus(r) = StatusBadRequest /\ NoStagePutUpdate(r)

BaseType(contentType) ==
    TrimSpace(ToLower(SubSeq(contentType, 1, CutIndex(contentType) - 1)))

C7_OversizedIs413 ==
    \A r \in Requests :
        (Done(r) /\ Oversized(req[r].body))
        => (HTTPStatus(r) = StatusRequestEntityTooLarge /\ NoStagePutUpdate(r))

\* C8: for positive width and height getVideoAspectRatio returns no error
\* and the class of the real ratio: "16:9" when |w/h - 16/9| < 0.02, else
\* "9:16" when |w/h - 9/16| < 0.02, else "other".
C8_ClassOfRealRatio ==
    \A r \in Requests :
        LET v == req[r].probe.streams[1]
        IN  (pc[r] = "inspected" /\ v.Width > 0 /\ v.Height > 0)
            => (~loc[r].inspectErr /\ loc[r].ratio = RealClass(v.Width, v.Height))

IsHexToken(h) ==
    /\ Len(h) = 32
    /\ \A i \in 1..Len(h) : \E d \in 1..Len(HexDigits) : h[i] = HexDigits[d]

C10_ReleasedBeforeErrorResponse ==
    \A r \in Requests :
        /\ (pc[r] \in {"ret", "done"} /\ Staged(r) /\ Failed(r)) => TempFilesOf(r) = {}
        /\ \A i \in 1..Len(s3) : s3[i].op = "PutObject"

----------------------------------------------------------------------------
\* the objects PutObject stored for the request
StoredObjects(r) == {i \in 1..Len(s3) : s3[i].r = r /\ s3[i].op = "PutObject" /\ s3[i].ok}

\* the run ended at the failed UpdateVideo of lines 222-227
UpdateFailed(r) == pc[r] \in {"ret", "done"} /\ loc[r].failedAt = "update"

\* C11: when UpdateVideo fails after PutObject succeeded, every response of
\* the request is an error with status 500 and none is the 200 JSON answer,
\* UpdateVideo was called exactly once, the record in the store is unchanged,
\* and the object store saw nothing but the one successful PutObject of the
\* request: the uploaded object is still there, no delete was issued.
C11_UpdateFailureKeepsObject ==
    \A r \in DOMAIN pc :
        UpdateFailed(r) =>
            /\ HTTPStatus(r) = StatusInternalServerError
            /\ \A i \in 1..Len(resp[r]) :
                   resp[r][i].fn = "error" /\ resp[r][i].code # StatusOK
            /\ Cardinality(Events(r, "update")) = 1
            /\ Cardinality(StoredObjects(r)) = 1
            /\ \A i \in 1..Len(s3) : s3[i].r = r => s3[i].op = "PutObject"
            /\ db[loc[r].video.ID].VideoURL = NilURL

\* a request that uploaded its object, failed to persist and returned
C11_Witness ==
    \E r \in DOMAIN pc :
        /\ pc[r] = "done"
        /\ loc[r].failedAt = "update"
        /\ StoredObjects(r) # {}
        /\ HTTPStatus(r) = StatusInternalServerError

----------------------------------------------------------------------------
\* what the failing step handed to respondWithError: the last response
Outcome(r) == resp[r][Len(resp[r])]

\* the outcome of a failed ffmpeg run (assets.go 139, handler lines 140-146)
RemuxFailureOutcome ==
    [fn |-> "error", code |-> StatusInternalServerError,
     msg |-> "Error optimizing video for streaming",
     err |-> "ffmpeg execution failed"]

SwapFailed(r) ==
    pc[r] \in {"ret", "done"} /\ loc[r].failedAt \in {"swap-remove", "swap-rename"}

RemuxFailed(r) == pc[r] \in {"ret", "done"} /\ loc[r].failedAt = "ffmpeg"

\* C12: a run whose ffmpeg failed hands respondWithError the remux-failure
\* outcome, and a run whose remux succeeded but whose os.Remove or os.Rename
\* of the swap failed hands it a different one: the two can be told apart.
C12_SwapFailureDistinct ==
    \A r \in DOMAIN pc :
        /\ RemuxFailed(r) => Outcome(r) = RemuxFailureOutcome
        /\ SwapFailed(r) => Outcome(r) # RemuxFailureOutcome

\* a run that produced the remuxed file and then failed to swap it in
C12_Witness ==
    \E r \in DOMAIN pc :
        /\ SwapFailed(r)
        /\ \E i \in Events(r, "create") : log[i].arg = FastStartPath(loc[r].tmpName)
        /\ HTTPStatus(r) = StatusInternalServerError

----------------------------------------------------------------------------
\* processVideoForFastStart has returned the ffmpeg error and the handler has
\* answered; the deferred calls have not run yet
RemuxJustFailed(r) == pc[r] = "ret" /\ loc[r].failedAt = "ffmpeg"

\* the os.Remove calls the run made on path p
RemovesOf(r, p) == {i \in Events(r, "remove") : log[i].arg.path = p}

\* C13: when ffmpeg fails, processVideoForFastStart has called os.Remove on
\* <input>.faststart.mp4 before the error is answered, no file is left at
\* that path unless the system refused that removal, and the input file is
\* still in place: the upload copy, never removed and never renamed over.
C13_PartialOutputRemoved ==
    \A r \in DOMAIN pc :
        RemuxJustFailed(r) =>
            LET filePath   == loc[r].tmpName
                outputPath == FastStartPath(filePath)
            IN  /\ Cardinality(RemovesOf(r, outputPath)) = 1
                /\ \A i \in RemovesOf(r, outputPath) :
                       \A k \in Events(r, "respond") : i < k
                /\ Exists(outputPath) => RemoveRefused(r)
                /\ disk[filePath].owner = r
                /\ disk[filePath].kind = "upload"
                /\ RemovesOf(r, filePath) = {}
                /\ Events(r, "rename") = {}

\* ffmpeg failed after writing part of its output, and that part is gone
C13_Witness ==
    \E r \in DOMAIN pc :
        /\ RemuxJustFailed(r)
        /\ \E i \in Events(r, "create") : log[i].arg = FastStartPath(loc[r].tmpName)
        /\ ~Exists(FastStartPath(loc[r].tmpName))
        /\ Exists(loc[r].tmpName)

----------------------------------------------------------------------------
\* the os.Remove call i of the log targets a path that holds no file because
\* an earlier os.Remove of the same run took the file away
RemovesAgain(r, i) ==
    /\ ~log[i].arg.existed
    /\ \E j \in RemovesOf(r, log[i].arg.path) : j < i /\ log[j].arg.ok

\* C14: once the handler has returned, a run that staged a file has none of
\* its staged files left on disk (neither the upload copy nor the remuxed
\* output), and none of its os.Remove calls was made on a path whose file an
\* earlier os.Remove had already removed.  Stated for the runs in which the
\* system refused none of the removals.
C14_StagedFilesRemovedOnce ==
    \A r \in DOMAIN pc :
        (Done(r) /\ Staged(r) /\ ~RemoveRefused(r)) =>
            /\ TempFilesOf(r) = {}
            /\ \A i \in Events(r, "remove") : ~RemovesAgain(r, i)

----------------------------------------------------------------------------
\* the handles on staged files: the one os.CreateTemp returned (line 119) and
\* the one os.Open returned for the remuxed file (line 151)
StagedHandles == {"tmp0", "tmp1"}

\* C15: once the handler has returned, no handle it opened on a staged file
\* is still open, whether the run succeeded or failed.
C15_StagedHandlesClosed ==
    \A r \in DOMAIN pc :
        Done(r) => \A h \in StagedHandles : hnd[r][h] # "open"

----------------------------------------------------------------------------
\* r.ParseMultipartForm has read the request body (line 46)
BodyRead(r) == req[r].body # None

\* the comparison video.UserID != userID of line 77 has been made
OwnershipChecked(r) == loc[r].video.exists \/ loc[r].failedAt = "owner"

\* ffmpeg has been run on the staged file (line 138, assets.go 134)
RemuxRun(r) == pc[r] \notin {"start", "token", "parse", "getvideo", "formfile",
                               "ctype", "createtemp", "copy", "ffmpeg"}
               \/ loc[r].failedAt \in {"ffmpeg", "swap-remove", "swap-rename"}

\* getVideoAspectRatio has been called (line 185)
InspectionRun(r) == req[r].probe # None

\* rand.Read has filled randomBytes (line 175)
TokenDrawn(r) == loc[r].randomBytes # <<>>

\* C16: at every moment of a run, the body has been read only after the
\* ownership check, ffmpeg has been run only after the inspection, and the
\* random token has been drawn only after both the remux and the inspection.
C16_StageOrder ==
    \A r \in DOMAIN pc :
        /\ BodyRead(r) => OwnershipChecked(r)
        /\ RemuxRun(r) => InspectionRun(r)
        /\ TokenDrawn(r) => (RemuxRun(r) /\ InspectionRun(r))

----------------------------------------------------------------------------
(* Concurrent uploads: net/http runs handlerUploadVideo once per request,  *)
(* each call in its own goroutine, all on one file system.  The steps on   *)
(* staged files (lines 119-160 with processVideoForFastStart, and the      *)
(* deferred calls) of two requests interleave freely.                      *)

ConcurrentRequests == {"r1", "r2"}

\* a request of the owner that has passed every check of lines 22-115
AcceptedReq ==
    [InitReq EXCEPT !.videoID = "v1", !.token = "userA", !.userID = "userA",
                    !.body = "ok", !.hasVideoPart = TRUE, !.contentType = VideoMp4]

AcceptedLoc ==
    [InitLoc EXCEPT !.video = Video("v1", "userA", "title-1", NilURL),
                    !.contentType = VideoMp4, !.deferFileClose = TRUE]

InitStaging ==
    /\ pc = [r \in ConcurrentRequests |-> "createtemp"]
    /\ req = [r \in ConcurrentRequests |-> AcceptedReq]
    /\ loc = [r \in ConcurrentRequests |-> AcceptedLoc]
    /\ resp = [r \in ConcurrentRequests |-> <<>>]
    /\ hnd = [r \in ConcurrentRequests |->
                [h \in HandleNames |-> IF h = "file" THEN "open" ELSE "unopened"]]
    /\ disk = [p \in Paths |-> NoFile]
    /\ s3 = <<>>
    /\ db = [v \in VideoIDs |->
                IF v = "v1" THEN Video("v1", "userA", "title-1", NilURL) ELSE NoRecord]
    /\ log = <<>>

StagingStep(r) ==
    \/ CreateTemp(r)
    \/ CopyBody(r)
    \/ RunFFmpeg(r)
    \/ SwapRemove(r)
    \/ SwapRename(r)
    \/ Reopen(r)
    \/ Return(r)

NextStaging == \E r \in ConcurrentRequests : StagingStep(r)

SpecStaging == InitStaging /\ [][NextStaging]_vars

\* the handler call has created its temp file and has not returned yet
Live(r) == Staged(r) /\ pc[r] # "done"

\* the paths the run works on: tmpFile.Name() and the remux output beside it
OwnPaths(r) == {loc[r].tmpName, FastStartPath(loc[r].tmpName)}

\* C17: in every interleaving of concurrent uploads, two live requests never
\* hold the same temp-file path, and the paths a live request removes,
\* renames and reads hold no file staged by another request; this covers
\* the time between os.Remove(filePath) and os.Rename(outputPath, filePath)
\* of one request, when its name is free for another request's os.CreateTemp.
C17_TempPathsDisjoint ==
    \A r \in DOMAIN pc : \A o \in DOMAIN pc \ {r} :
        Live(r) =>
            /\ Live(o) => loc[r].tmpName # loc[o].tmpName
            /\ \A p \in OwnPaths(r) : disk[p].owner # o

----------------------------------------------------------------------------
(* The record is owned outside this handler: other writers of the metadata *)
(* store change its other fields while an upload is in progress.           *)

Titles == {"title-1", "title-2"}

\* another writer of the store gives an existing record a new title
OtherWriter ==
    /\ \E v \in VideoIDs, t \in Titles :
          /\ db[v].exists
          /\ db[v].Title # t
          /\ db' = [db EXCEPT ![v].Title = t]
    /\ UNCHANGED <<pc, req, loc, resp, hnd, disk, s3, log>>

NextWriters == Next \/ OtherWriter

SpecWriters == Init /\ [][NextWriters]_vars

\* this step is a successful cfg.db.UpdateVideo of request r (lines 226-227)
UpdateVideoStep(r) == pc[r] = "update" /\ pc'[r] = "json"

\* the stored records differ at most in the playback URL across the step
OnlyVideoURLChanges ==
    \A v \in VideoIDs :
        /\ db'[v].exists = db[v].exists
        /\ db[v].exists => [db'[v] EXCEPT !.VideoURL = db[v].VideoURL] = db[v]

\* C18: a successful UpdateVideo of an upload changes nothing in the store
\* but the playback URL: every other field of every record has after the
\* call the value it had in the store just before it, also when another
\* writer changed the record after this run's GetVideo; no record appears
\* or disappears.
C18_OnlyPlaybackURLWritten ==
    [][\A r \in DOMAIN pc : UpdateVideoStep(r) => OnlyVideoURLChanges]_vars

----------------------------------------------------------------------------
\* the respondWithError calls of the run, as places in the log
ErrorResponses(r) == {i \in Events(r, "respond") : log[i].arg # StatusOK}

\* C19: a request never has more than one response, has exactly one when the
\* handler has returned, and once respondWithError has been called the
\* handler is returning: no PutObject, UpdateVideo or response follows it.
C19_ExactlyOneResponse ==
    \A r \in DOMAIN pc :
        /\ Len(resp[r]) <= 1
        /\ Done(r) => Len(resp[r]) = 1
        /\ ErrorResponses(r) # {} => pc[r] \in {"ret", "done"}
        /\ \A i \in ErrorResponses(r) :
               \A j \in Events(r, "put") \cup Events(r, "update")
                                        \cup Events(r, "respond") : j <= i

====
